---- MODULE Spec2Model ----
(***************************************************************************)
(* Model of streamlit_app.py: the CO2 / temperature dashboard.             *)
(*                                                                         *)
(* Numbers are fixed-point: a float value v is the integer 1000 * v        *)
(* (420.10 is 420100, the sentinel -99.99 is -99990).  A float cell is a   *)
(* sequence: <<n>> for a number, <<>> for NaN.  A calendar date is a       *)
(* record [y, m, d].  An optional value (None or x) is <<>> or <<x>>.      *)
(*                                                                         *)
(* A fetched text is a sequence of lines, a line is the sequence of its    *)
(* comma-separated fields, and a field is a cell record saying what the    *)
(* field's characters are: a column label (with or without surrounding     *)
(* double quotes and leading blanks), a date, a number, or other text.     *)
(***************************************************************************)
EXTENDS Integers, Sequences, FiniteSets

VARIABLES
    pc,            \* position of the run: "start" before the call, "done" after
    today,         \* datetime.now(timezone.utc).date()
    response,      \* outcome of requests.get(DATA_URL)
    ret,           \* what load_public_data did: returned (df, error) or raised
    scan,          \* locals of load_public_data: data_start_line and csv_data
    now,           \* monotonic clock, in seconds
    public_cache,  \* st.cache_data entry of load_public_data: <<>> or <<[value, at]>>
    user_cache,    \* st.cache_data entry of load_user_data: <<>> or <<df>>
    gets,          \* HTTP GETs issued by the last run of main
    hit,           \* the last run of main found load_public_data's entry fresh
    banner,        \* the last run of main called st.error
    widgets,       \* sidebar inputs of the last run
    view,          \* what create_public_data_dashboard displayed and exported
    user_ret,      \* what load_user_data returned
    user_view,     \* what create_user_data_dashboard displayed and exported
    reparsed       \* the exported CSV read back by load_public_data's parsing path

vars == << pc, today, response, ret, scan, now, public_cache, user_cache, gets,
           hit, banner, widgets, view, user_ret, user_view, reparsed >>

-----------------------------------------------------------------------------
(* Dates and numbers *)

Date(y, m, d) == [y |-> y, m |-> m, d |-> d]

\* a < b on datetime.date
DateLT(a, b) ==
    \/ a.y < b.y
    \/ a.y = b.y /\ a.m < b.m
    \/ a.y = b.y /\ a.m = b.m /\ a.d < b.d

DateLE(a, b) == a = b \/ DateLT(a, b)

NaN == << >>
Num(n) == << n >>

None == << >>
Some(x) == << x >>

\* -99.99, the missing-measurement marker
Sentinel == -99990

Max(a, b) == IF a >= b THEN a ELSE b

-----------------------------------------------------------------------------
(* Cells of the fetched text *)

NoDate == Date(0, 0, 0)

\* a column label: s, inside double quotes when q, after a blank when pad
Name(s, q, pad) == [k |-> "name", s |-> s, q |-> q, pad |-> pad, d |-> NoDate, n |-> 0]
\* a field such as 2023-05-15
DateCell(d) == [k |-> "date", s |-> "", q |-> FALSE, pad |-> FALSE, d |-> d, n |-> 0]
\* a field such as 420.10
NumCell(n) == [k |-> "num", s |-> "", q |-> FALSE, pad |-> FALSE, d |-> NoDate, n |-> n]
\* any other text: a comment (quoted when q) or a token such as abc
TextCell(s, q) == [k |-> "text", s |-> s, q |-> q, pad |-> FALSE, d |-> NoDate, n |-> 0]
\* a whitespace-delimited positional row (year month ... value ...), d the
\* first day of its month and n its value: it holds no comma, so it is one field
PosCell(d, n) == [k |-> "pos", s |-> "", q |-> FALSE, pad |-> FALSE, d |-> d, n |-> n]
\* a field the row does not have
Missing == [k |-> "missing", s |-> "", q |-> FALSE, pad |-> FALSE, d |-> NoDate, n |-> 0]

-----------------------------------------------------------------------------
(* load_public_data *)

\* '"Date"' in line
ContainsDateToken(line) ==
    \E i \in 1..Len(line) : line[i].k = "name" /\ line[i].q /\ line[i].s = "Date"

\* the loop without its break: the last line holding the token wins
RECURSIVE ScanNoBreak(_, _)
ScanNoBreak(lines, i) ==
    IF i > Len(lines) THEN 0
    ELSE LET later == ScanNoBreak(lines, i + 1)
         IN  IF later > 0 THEN later
             ELSE IF ContainsDateToken(lines[i]) THEN i - 1
             ELSE 0

\* the for loop with its break: the index (from 0) of the first line holding
\* the token, and the initial 0 when the loop ends without a break
RECURSIVE ScanFrom(_, _)
ScanFrom(lines, i) ==
    IF i > Len(lines) THEN 0
    ELSE IF ContainsDateToken(lines[i]) THEN i - 1
    ELSE ScanFrom(lines, i + 1)

data_start_line(lines) == ScanFrom(lines, 1)

\* "\n".join(lines[data_start_line:])
csv_data(lines, start) == SubSeq(lines, start + 1, Len(lines))

\* the label pandas gives a header field: the parser removes the quotes of a
\* field that starts with the quote character, and keeps quotes and blanks
\* of a field that starts with a blank
RawLabel(cell) ==
    [s |-> IF cell.k = "name" THEN cell.s ELSE "(data)",
     blank |-> cell.pad,
     quotes |-> cell.pad /\ cell.q]

\* pd.read_csv(io.StringIO(csv_data)) with its defaults.  The first line is
\* the header.  The first data line sets the table's width when it is wider
\* than the header (its extra leading fields become the row index); a later
\* line with more fields than that is an error, one with fewer is padded
\* with missing fields.
read_csv(lines) ==
    IF Len(lines) = 0
    THEN [exc |-> "EmptyDataError", columns |-> << >>, rows |-> << >>]
    ELSE LET header == lines[1]
             body == Tail(lines)
             width == IF Len(body) = 0 THEN Len(header)
                      ELSE Max(Len(header), Len(body[1]))
             leading == width - Len(header)
         IN  IF \E r \in 2..Len(body) : Len(body[r]) > width
             THEN [exc |-> "ParserError", columns |-> << >>, rows |-> << >>]
             ELSE [exc |-> "",
                   columns |-> [i \in 1..Len(header) |-> RawLabel(header[i])],
                   rows |-> [r \in 1..Len(body) |->
                               [i \in 1..Len(header) |->
                                  IF leading + i <= Len(body[r])
                                  THEN body[r][leading + i]
                                  ELSE Missing]]]

\* col.strip().replace('"', '')
StripLabel(label) == [s |-> label.s, blank |-> FALSE, quotes |-> FALSE]

Label(s) == [s |-> s, blank |-> FALSE, quotes |-> FALSE]

\* positions of the columns with this label
ColumnsNamed(columns, s) == {i \in 1..Len(columns) : columns[i] = Label(s)}

\* the float a field of a numeric column holds
FloatOf(cell) == IF cell.k = "num" THEN Num(cell.n) ELSE NaN

\* a column is float64 when each of its fields is a number or missing, and
\* object (strings) otherwise
IsFloatColumn(rows, c) ==
    \A r \in 1..Len(rows) : rows[r][c].k \in {"num", "missing"}

\* the comparison reversed: df[df['value'] == -99.99]
DropSentinelReversed(rows, c) ==
    IF IsFloatColumn(rows, c)
    THEN SelectSeq(rows, LAMBDA row : FloatOf(row[c]) = Num(Sentinel))
    ELSE << >>

\* df[df['value'] != -99.99]: a string never equals the float, NaN never does
DropSentinel(rows, c) ==
    IF IsFloatColumn(rows, c)
    THEN SelectSeq(rows, LAMBDA row : FloatOf(row[c]) # Num(Sentinel))
    ELSE rows

\* the comparison loosened: df[df['date'].dt.date <= today]
DropFutureKeepsToday(df, day) == SelectSeq(df, LAMBDA rec : DateLE(rec.date, day))

\* df[df['date'].dt.date < today]
DropFuture(df, day) == SelectSeq(df, LAMBDA rec : DateLT(rec.date, day))

Returned(df, error) == [kind |-> "return", exc |-> "", df |-> df, error |-> error]
Raised(exc) == [kind |-> "raise", exc |-> exc, df |-> << >>, error |-> None]

\* pd.date_range(start='1958-03-01', end='2024-01-01', freq='MS')
MonthStart(i) ==
    LET months == 1958 * 12 + (3 - 1) + i
    IN  Date(months \div 12, (months % 12) + 1, 1)

date_rng_len == (2024 * 12 + (1 - 1)) - (1958 * 12 + (3 - 1)) + 1

\* 315.71 + 0.005 * i**2 + 2 * (i % 12)
co2_data(i) == 315710 + 5 * i * i + 2000 * (i % 12)

example_df ==
    [j \in 1..date_rng_len |-> [date |-> MonthStart(j - 1), value |-> Num(co2_data(j - 1))]]

\* no except clause: the request's exception leaves the function
FallbackMissing(e) == Raised(e)

\* the except clause: the synthetic table and the message naming the failure
Fallback(e) == Returned(example_df, Some(e))

\* the try block after a response came back with a success status
ParseAndFilter(lines, day) ==
    LET start == data_start_line(lines)
        parsed == read_csv(csv_data(lines, start))
    IN  IF parsed.exc # "" THEN Raised(parsed.exc)
        ELSE
        LET columns == [i \in 1..Len(parsed.columns) |-> StripLabel(parsed.columns[i])]
            dates == ColumnsNamed(columns, "Date")
            values == ColumnsNamed(columns, "CO2")
        IN  IF dates = {} \/ values = {} THEN Raised("KeyError")
            ELSE
            LET dc == CHOOSE i \in dates : TRUE
                vc == CHOOSE i \in values : TRUE
                kept == DropSentinel(parsed.rows, vc)
            IN  \* pd.to_datetime(df['date'])
                IF \E r \in 1..Len(kept) : kept[r][dc].k # "date"
                THEN Raised("ValueError")
                \* pd.to_numeric(df['value'])
                ELSE IF ~IsFloatColumn(kept, vc) THEN Raised("ValueError")
                ELSE Returned(
                        DropFuture([r \in 1..Len(kept) |->
                                      [date |-> kept[r][dc].d, value |-> FloatOf(kept[r][vc])]],
                                   day),
                        None)

\* the function body, without the cache
load_public_data(resp, day) ==
    IF resp.exc # "" THEN Fallback(resp.exc)                  \* requests.get raised
    ELSE IF resp.status_code >= 400 THEN Fallback("HTTPError") \* raise_for_status raised
    ELSE ParseAndFilter(resp.text, day)

-----------------------------------------------------------------------------
(* create_public_data_dashboard *)

\* savgol_filter(..., window_length=11, polyorder=2): the fit below is the
\* polyorder 2 one
window_length == 11

RECURSIVE Pow(_, _)
Pow(x, p) == IF p = 0 THEN 1 ELSE x * Pow(x, p - 1)

\* the sum of x^p over the offsets x..h of a window
RECURSIVE PowerSum(_, _, _)
PowerSum(h, x, p) == IF x > h THEN 0 ELSE Pow(x, p) + PowerSum(h, x + 1, p)

RECURSIVE GCD(_, _)
GCD(a, b) == IF b = 0 THEN a ELSE GCD(b, a % b)

LCM(a, b) == (a \div GCD(a, b)) * b

\* The least-squares parabola through the window centred on c, at offset t
\* from the centre.  With S0, S2, S4 the sums of x^0, x^2, x^4 over the
\* window's offsets and D = S0*S4 - S2^2, the fit of z is
\*   (S4*Sum(z) - S2*Sum(x^2 z))/D + t*Sum(x z)/S2 + t^2*(S0*Sum(x^2 z) - S2*Sum(z))/D.
\* The fit is exact on constants, so it is taken of z = y - y[c] and y[c] is
\* added back.  Each quotient is reduced to lowest terms, the three are put
\* over their common denominator, and the result is rounded to the nearest
\* fixed-point unit.
SavgolS2 == PowerSum(window_length \div 2, -(window_length \div 2), 2)
SavgolS4 == PowerSum(window_length \div 2, -(window_length \div 2), 4)
SavgolD == window_length * SavgolS4 - SavgolS2 * SavgolS2
SavgolG0 == GCD(SavgolS4, GCD(SavgolS2, SavgolD))
SavgolG2 == GCD(window_length, GCD(SavgolS2, SavgolD))
SavgolL == LCM(SavgolD \div SavgolG0, LCM(SavgolS2, SavgolD \div SavgolG2))

\* the weight of z[x] in SavgolL times the fit at offset t
SavgolCoef ==
    [t \in -(window_length \div 2)..(window_length \div 2) |->
       [x \in -(window_length \div 2)..(window_length \div 2) |->
          (SavgolL \div (SavgolD \div SavgolG0))
              * ((SavgolS4 \div SavgolG0) - (SavgolS2 \div SavgolG0) * x * x)
          + (SavgolL \div SavgolS2) * t * x
          + (SavgolL \div (SavgolD \div SavgolG2)) * t * t
              * ((window_length \div SavgolG2) * x * x - (SavgolS2 \div SavgolG2))]]

\* the sum of w[x] * (y[c + x] - y[c]) over the offsets x..h
RECURSIVE WindowSum(_, _, _, _, _)
WindowSum(y, c, h, x, w) ==
    IF x > h THEN 0
    ELSE w[x] * (y[c + x] - y[c]) + WindowSum(y, c, h, x + 1, w)

FitAt(y, c, t) ==
    LET h == window_length \div 2
        numer == WindowSum(y, c, h, -h, SavgolCoef[t])
        q == numer \div SavgolL
        r == numer % SavgolL
    IN  y[c] + q + (IF 2 * r >= SavgolL THEN 1 ELSE 0)

\* scipy.signal.savgol_filter(x, window_length=11, polyorder=2), mode
\* 'interp': each interior point is its own window's fit at the centre; the
\* first and last window_length \div 2 points are the first and last
\* window's fit evaluated at their offsets.  A series shorter than the
\* window is refused.  x holds numbers only: the tables long enough to be
\* smoothed here have no NaN.
savgol_filter(x) ==
    LET n == Len(x)
        h == window_length \div 2
    IN  IF n < window_length
        THEN [exc |-> "ValueError", out |-> << >>]
        ELSE [exc |-> "",
              out |-> [i \in 1..n |->
                         IF i <= h THEN FitAt(x, h + 1, i - (h + 1))
                         ELSE IF i > n - h THEN FitAt(x, n - h, i - (n - h))
                         ELSE FitAt(x, i, 0)]]

\* df['date'].min().date() and df['date'].max().date(), over the rows lo..hi
RECURSIVE MinDateIn(_, _, _), MaxDateIn(_, _, _)
MinDateIn(df, lo, hi) ==
    IF lo = hi THEN df[lo].date
    ELSE LET mid == (lo + hi) \div 2
             a == MinDateIn(df, lo, mid)
             b == MinDateIn(df, mid + 1, hi)
         IN  IF DateLT(b, a) THEN b ELSE a
MaxDateIn(df, lo, hi) ==
    IF lo = hi THEN df[lo].date
    ELSE LET mid == (lo + hi) \div 2
             a == MaxDateIn(df, lo, mid)
             b == MaxDateIn(df, mid + 1, hi)
         IN  IF DateLT(a, b) THEN b ELSE a

min_date(df) == MinDateIn(df, 1, Len(df))
max_date(df) == MaxDateIn(df, 1, Len(df))

\* filtered_df.to_csv(index=False): a header of the column names, then one
\* line per row; a date is written as a date field, a float as a number
\* field and NaN as an empty field
CsvNumber(v) == IF v = NaN THEN Missing ELSE NumCell(v[1])

to_csv(columns, rows) ==
    << [i \in 1..Len(columns) |-> Name(columns[i], FALSE, FALSE)] >>
    \o [r \in 1..Len(rows) |->
          [i \in 1..Len(columns) |->
             IF columns[i] = "date" THEN DateCell(rows[r].date)
             ELSE IF columns[i] = "value" THEN CsvNumber(rows[r].value)
             ELSE CsvNumber(rows[r].smoothed)]]

View(drawn, exc, calls, columns, rows) ==
    [drawn |-> drawn, exc |-> exc, calls |-> calls,
     table |-> [columns |-> columns, rows |-> rows],
     csv |-> IF drawn THEN to_csv(columns, rows) ELSE << >>]

\* the length test forgotten: if use_smoothing
ShouldSmoothAnyLength(use_smoothing, n) == use_smoothing

\* if use_smoothing and len(filtered_df) > 11
ShouldSmooth(use_smoothing, n) == use_smoothing /\ n > 11

\* picked is what st.sidebar.date_input returns: a tuple of two dates, or of
\* one while the user is still choosing the range
create_public_data_dashboard(df, picked, use_smoothing) ==
    IF Len(df) = 0 THEN View(FALSE, "ValueError", 0, << >>, << >>)   \* NaT.date()
    ELSE IF Len(picked) # 2 THEN View(FALSE, "ValueError", 0, << >>, << >>)   \* unpacking
    ELSE
    LET start_date == picked[1]
        end_date == picked[2]
    IN  IF DateLT(end_date, start_date)
        THEN View(FALSE, "", 0, << >>, << >>)                        \* st.sidebar.error; return
        ELSE
        LET filtered_df == SelectSeq(df, LAMBDA rec :
                               DateLE(start_date, rec.date) /\ DateLE(rec.date, end_date))
        IN  IF ShouldSmooth(use_smoothing, Len(filtered_df))
            THEN LET sg == savgol_filter([i \in 1..Len(filtered_df) |-> filtered_df[i].value[1]])
                 IN  IF sg.exc # "" THEN View(FALSE, sg.exc, 1, << >>, << >>)
                     ELSE View(TRUE, "", 1, << "date", "value", "smoothed" >>,
                               [i \in 1..Len(filtered_df) |->
                                  [date |-> filtered_df[i].date,
                                   value |-> filtered_df[i].value,
                                   smoothed |-> Num(sg.out[i])]])
            ELSE View(TRUE, "", 0, << "date", "value" >>, filtered_df)

-----------------------------------------------------------------------------
(* load_user_data and create_user_data_dashboard *)

\* csv_string: year, temp_anomaly, co2_concentration
csv_string ==
    << << 2001, 540, 370570 >>, << 2002, 630, 372450 >>, << 2003, 620, 375040 >>,
       << 2004, 540, 376820 >>, << 2005, 680, 378920 >>, << 2006, 640, 381080 >>,
       << 2007, 660, 382720 >>, << 2008, 540, 384990 >>, << 2009, 660, 386370 >>,
       << 2010, 720, 388570 >>, << 2011, 610, 390520 >>, << 2012, 650, 392520 >>,
       << 2013, 680, 395270 >>, << 2014, 740, 397140 >>, << 2015, 900, 399990 >>,
       << 2016, 1020, 403300 >>, << 2017, 930, 405500 >>, << 2018, 850, 407400 >>,
       << 2019, 980, 409800 >>, << 2020, 1020, 412500 >>, << 2021, 850, 414700 >>,
       << 2022, 860, 417200 >>, << 2023, 1180, 419300 >> >>

\* the frame after read_csv, rename and pd.to_datetime(..., format='%Y')
user_frame ==
    [i \in 1..Len(csv_string) |->
        [date |-> Date(csv_string[i][1], 1, 1),
         value |-> Num(csv_string[i][2]),
         group |-> Num(csv_string[i][3])]]

\* the comparison loosened: df[df['date'].dt.year <= current_year]
load_user_data_through(current_year) ==
    SelectSeq(user_frame, LAMBDA rec : rec.date.y <= current_year)

\* the function body, without the cache: df[df['date'].dt.year < current_year]
load_user_data(current_year) ==
    SelectSeq(user_frame, LAMBDA rec : rec.date.y < current_year)

\* years is what st.sidebar.slider returns: (start_year, end_year).  The
\* displayed frame has the columns renamed back and the date cut to its year.
create_user_data_dashboard(df, years) ==
    LET filtered_df == SelectSeq(df, LAMBDA rec :
                           rec.date.y >= years[1] /\ rec.date.y <= years[2])
        display_df == [i \in 1..Len(filtered_df) |->
                          [year |-> filtered_df[i].date.y,
                           temp_anomaly |-> filtered_df[i].value,
                           co2_concentration |-> filtered_df[i].group]]
    IN  [drawn |-> TRUE, exc |-> "", calls |-> 0,
         table |-> [columns |-> << "year", "temp_anomaly", "co2_concentration" >>,
                    rows |-> display_df],
         csv |-> << >>]

-----------------------------------------------------------------------------
(* main, behind st.cache_data *)

\* @st.cache_data(ttl=3600)
ttl == 3600

\* the entry is served while it is younger than ttl
Fresh(cache, t) == Len(cache) = 1 /\ t - cache[1].at < ttl

\* a cache that keeps successes only: the fallback pair is not stored
CachedLoadDropsFallback(cache, t, resp, day) ==
    IF Fresh(cache, t)
    THEN [result |-> cache[1].value, cache |-> cache, gets |-> 0, hit |-> TRUE]
    ELSE LET r == load_public_data(resp, day)
         IN  [result |-> r,
              cache |-> IF r.kind = "return" /\ r.error = None
                        THEN << [value |-> r, at |-> t] >> ELSE << >>,
              gets |-> 1,
              hit |-> FALSE]

\* load_public_data() as main calls it: the cached pair when the entry is
\* fresh, else the body, whose returned pair is stored; a raise stores nothing
CachedLoad(cache, t, resp, day) ==
    IF Fresh(cache, t)
    THEN [result |-> cache[1].value, cache |-> cache, gets |-> 0, hit |-> TRUE]
    ELSE LET r == load_public_data(resp, day)
         IN  [result |-> r,
              cache |-> IF r.kind = "return" THEN << [value |-> r, at |-> t] >> ELSE << >>,
              gets |-> 1,
              hit |-> FALSE]

\* load_user_data() as main calls it: cached without expiry
CachedLoadUser(cache, year) ==
    IF Len(cache) = 1 THEN [result |-> cache[1], cache |-> cache]
    ELSE [result |-> load_user_data(year), cache |-> << load_user_data(year) >>]

-----------------------------------------------------------------------------
(* Fetched texts and responses *)

\* the longest fetched text, in lines
MaxLines == 4

D1 == Date(2023, 5, 15)
D2 == Date(2023, 5, 16)
D3 == Date(2023, 5, 17)

\* 421.80
V1 == 421 * 1000 + 800

\* the months and the value of the positional rows: 2020-01, 2020-02, 420.10
P1 == Date(2020, 1, 1)
P2 == Date(2020, 2, 1)
VA == 420 * 1000 + 100

Comment == << TextCell("comment", TRUE) >>
HeaderQuoted == << Name("Date", TRUE, FALSE), Name("CO2", TRUE, FALSE) >>
HeaderPadded == << Name("Date", TRUE, FALSE), Name("CO2", TRUE, TRUE) >>
HeaderExport == << Name("date", FALSE, FALSE), Name("value", FALSE, FALSE) >>
Row(d, n) == << DateCell(d), NumCell(n) >>
RowBadValue == << DateCell(D1), TextCell("abc", FALSE) >>
RowShort == << DateCell(D1) >>
RowLong == << DateCell(D1), NumCell(V1), NumCell(V1) >>
PosRow(d, n) == << PosCell(d, n) >>

Lines ==
    { Comment, HeaderQuoted, HeaderPadded, HeaderExport,
      Row(D1, Sentinel), Row(D1, V1), Row(D2, V1),
      RowBadValue, RowShort, RowLong,
      PosRow(P1, Sentinel), PosRow(P2, VA) }

\* the text is labelled Date/CO2 and its first data line is wider than its
\* header, so that pandas reads the line's first field as the row index and
\* a number as the date: not among the inputs
ReadsRowIndex(lines) ==
    LET csv == csv_data(lines, data_start_line(lines))
    IN  /\ Len(csv) >= 2
        /\ Len(csv[2]) > Len(csv[1])
        /\ \E i \in 1..Len(csv[1]) : csv[1][i].k = "name" /\ csv[1][i].s = "Date"
        /\ \E i \in 1..Len(csv[1]) : csv[1][i].k = "name" /\ csv[1][i].s = "CO2"

Texts ==
    {t \in UNION {[1..n -> Lines] : n \in 0..MaxLines} : ~ReadsRowIndex(t)}

Ok(text) == [exc |-> "", status_code |-> 200, text |-> text]
HttpError(code) == [exc |-> "", status_code |-> code, text |-> << >>]
NetworkError(e) == [exc |-> e, status_code |-> 0, text |-> << >>]

Failures == {HttpError(503), HttpError(404), NetworkError("ConnectionError"), NetworkError("Timeout")}

NoResponse == NetworkError("")
NoReturn == [kind |-> "", exc |-> "", df |-> << >>, error |-> None]
NoScan == [data_start_line |-> 0, csv_data |-> << >>]
NoWidgets == [picked |-> << >>, use_smoothing |-> FALSE, years |-> << >>]
NoView == [drawn |-> FALSE, exc |-> "", calls |-> 0, table |-> << >>, csv |-> << >>]

\* the parts of the state a specification does not use
Rest(used) ==
    /\ IF "load" \in used THEN TRUE
       ELSE response = NoResponse /\ ret = NoReturn /\ scan = NoScan
    /\ IF "main" \in used THEN TRUE
       ELSE /\ now = 0 /\ public_cache = << >> /\ user_cache = << >>
            /\ gets = 0 /\ hit = FALSE /\ banner = FALSE
    /\ IF "dash" \in used THEN TRUE ELSE widgets = NoWidgets /\ view = NoView
    /\ IF "user" \in used THEN TRUE ELSE user_ret = << >> /\ user_view = NoView
    /\ IF "round" \in used THEN TRUE ELSE reparsed = NoReturn

-----------------------------------------------------------------------------
(* One call of load_public_data's body on each response and each date *)

InitLoad ==
    /\ pc = "start"
    /\ today \in {D2, D3}
    /\ response \in Failures \cup {Ok(t) : t \in Texts}
    /\ ret = NoReturn
    /\ scan = NoScan
    /\ Rest({"load"})

CallLoad ==
    /\ pc = "start"
    /\ pc' = "done"
    /\ ret' = load_public_data(response, today)
    /\ scan' = IF response.exc = "" /\ response.status_code < 400
               THEN [data_start_line |-> data_start_line(response.text),
                     csv_data |-> csv_data(response.text, data_start_line(response.text))]
               ELSE NoScan
    /\ UNCHANGED << today, response, now, public_cache, user_cache, gets, hit,
                    banner, widgets, view, user_ret, user_view, reparsed >>

NextLoad == CallLoad

SpecLoad == InitLoad /\ [][NextLoad]_vars

-----------------------------------------------------------------------------
(* Runs of main over time *)

\* the clock advances in steps of half the cache's validity window
TickSeconds == ttl \div 2

\* the last clock step
MaxTicks == 2

\* 2023-05-15 kept, the sentinel row and the row dated today dropped
GoodText == << Comment, HeaderQuoted, Row(D1, V1), Row(D1, Sentinel), Row(D2, V1) >>
\* no Date or CO2 column
OtherText == << HeaderExport, Row(D1, V1) >>

MainResponses ==
    { HttpError(503), NetworkError("ConnectionError"), Ok(GoodText), Ok(OtherText) }

\* the ranges the date widget is given in a run of main: the whole table
\* (its default), the ends swapped, and a range still being chosen
Picks(df) ==
    IF Len(df) = 0 THEN { << >> }
    ELSE { << min_date(df), max_date(df) >>,
           << max_date(df), min_date(df) >>,
           << min_date(df) >> }

\* the range the year slider is given in a run of main: all years (its default)
Years(df) == { << df[1].date.y, df[Len(df)].date.y >> }

Init ==
    /\ pc = "idle"
    /\ today = D2
    /\ now = 0
    /\ public_cache = << >>
    /\ user_cache = << >>
    /\ response = NoResponse
    /\ ret = NoReturn
    /\ gets = 0
    /\ hit = FALSE
    /\ banner = FALSE
    /\ widgets = NoWidgets
    /\ view = NoView
    /\ user_ret = << >>
    /\ user_view = NoView
    /\ scan = NoScan
    /\ reparsed = NoReturn

\* the rest of main once load_public_data has returned or raised
AfterLoad(load) ==
    /\ ret' = load.result
    /\ public_cache' = load.cache
    /\ gets' = load.gets
    /\ hit' = load.hit
    /\ IF load.result.kind = "raise"
       THEN \* the exception leaves main: nothing below the call runs
            /\ banner' = FALSE
            /\ widgets' = NoWidgets
            /\ view' = NoView
            /\ user_ret' = << >>
            /\ user_view' = NoView
            /\ UNCHANGED user_cache
       ELSE /\ banner' = (load.result.error # None)
            /\ \E picked \in Picks(load.result.df), use_smoothing \in BOOLEAN :
                 LET v == create_public_data_dashboard(load.result.df, picked, use_smoothing)
                 IN  /\ view' = v
                     /\ IF v.exc # ""
                        THEN /\ widgets' = [picked |-> picked, use_smoothing |-> use_smoothing,
                                            years |-> << >>]
                             /\ user_ret' = << >>
                             /\ user_view' = NoView
                             /\ UNCHANGED user_cache
                        ELSE LET u == CachedLoadUser(user_cache, today.y)
                             IN  /\ user_cache' = u.cache
                                 /\ user_ret' = u.result
                                 /\ \E years \in Years(u.result) :
                                      /\ widgets' = [picked |-> picked,
                                                     use_smoothing |-> use_smoothing,
                                                     years |-> years]
                                      /\ user_view' = create_user_data_dashboard(u.result, years)

\* a run of main that finds load_public_data's entry fresh: no request is made
RenderCached ==
    /\ Fresh(public_cache, now)
    /\ AfterLoad(CachedLoad(public_cache, now, response, today))
    /\ UNCHANGED << pc, today, response, scan, now, reparsed >>

\* a run of main that calls the body: one request, answered by resp
RenderFetch ==
    /\ ~Fresh(public_cache, now)
    /\ \E resp \in MainResponses :
         /\ response' = resp
         /\ AfterLoad(CachedLoad(public_cache, now, resp, today))
    /\ UNCHANGED << pc, today, scan, now, reparsed >>

Tick ==
    /\ now < MaxTicks * TickSeconds
    /\ now' = now + TickSeconds
    /\ UNCHANGED << pc, today, response, ret, scan, public_cache, user_cache, gets,
                    hit, banner, widgets, view, user_ret, user_view, reparsed >>

Next == RenderCached \/ RenderFetch \/ Tick

Spec == Init /\ [][Next]_vars

-----------------------------------------------------------------------------
(* create_public_data_dashboard on tables around the smoothing window *)

\* the longest table the dashboard is given
MaxSeries == 14

InitDash ==
    /\ pc = "start"
    /\ today = D2
    /\ \E n \in 1..MaxSeries :
         /\ ret = Returned(SubSeq(example_df, 1, n), None)
         /\ widgets \in [picked : {<< MonthStart(a), MonthStart(b) >> : a, b \in 0..(n - 1)}
                                    \cup {<< MonthStart(0) >>},
                         use_smoothing : BOOLEAN,
                         years : {<< >>}]
    /\ view = NoView
    /\ Rest({"load", "dash"})
    /\ response = NoResponse
    /\ scan = NoScan

CallDash ==
    /\ pc = "start"
    /\ pc' = "done"
    /\ view' = create_public_data_dashboard(ret.df, widgets.picked, widgets.use_smoothing)
    /\ UNCHANGED << today, response, ret, scan, now, public_cache, user_cache, gets,
                    hit, banner, widgets, user_ret, user_view, reparsed >>

NextDash == CallDash

SpecDash == InitDash /\ [][NextDash]_vars

-----------------------------------------------------------------------------
(* load_user_data in each year, and its dashboard on each range of years *)

\* the reference years run this far before and after the embedded ones
YearsAround == 3

InitUser ==
    /\ pc = "start"
    /\ today \in {Date(y, m, 1) :
                    y \in (csv_string[1][1] - YearsAround)
                          ..(csv_string[Len(csv_string)][1] + YearsAround),
                    m \in {1, 6, 12}}
    /\ user_ret = << >>
    /\ user_view = NoView
    /\ widgets = NoWidgets
    /\ view = NoView
    /\ Rest({"user", "dash"})

CallLoadUser ==
    /\ pc = "start"
    /\ pc' = "loaded"
    /\ user_ret' = load_user_data(today.y)
    /\ UNCHANGED << today, response, ret, scan, now, public_cache, user_cache, gets,
                    hit, banner, widgets, view, user_view, reparsed >>

\* the slider gives any start_year <= end_year between the frame's first and
\* last year
CallUserDashboard ==
    /\ pc = "loaded"
    /\ Len(user_ret) > 0
    /\ pc' = "done"
    /\ \E a \in 1..Len(user_ret) : \E b \in a..Len(user_ret) :
         LET years == << user_ret[a].date.y, user_ret[b].date.y >>
         IN  /\ widgets' = [picked |-> << >>, use_smoothing |-> FALSE, years |-> years]
             /\ user_view' = create_user_data_dashboard(user_ret, years)
    /\ UNCHANGED << today, response, ret, scan, now, public_cache, user_cache, gets,
                    hit, banner, view, user_ret, reparsed >>

NextUser == CallLoadUser \/ CallUserDashboard

SpecUser == InitUser /\ [][NextUser]_vars

-----------------------------------------------------------------------------
(* The exported CSV read back by load_public_data's parsing path *)

\* the longest table of the round trip
MaxTable == 3

\* 317.715, the second value of the synthetic series
V2 == co2_data(1)

\* tables as load_public_data returns them: no sentinel, every date before today
CanonicalRows ==
    { [date |-> d, value |-> v] : d \in {D1, D2}, v \in {Num(V1), Num(V2), NaN} }

CanonicalTables ==
    UNION {[1..n -> CanonicalRows] : n \in 1..MaxTable}
    \cup {SubSeq(example_df, 1, window_length + 1)}

\* the header of the export with its date and value columns given the
\* labels the parsing path selects: "Date" and "CO2"
Relabel(csv) ==
    << [i \in 1..Len(csv[1]) |->
          IF csv[1][i].s = "date" THEN Name("Date", TRUE, FALSE)
          ELSE IF csv[1][i].s = "value" THEN Name("CO2", TRUE, FALSE)
          ELSE csv[1][i]] >>
    \o Tail(csv)

InitRound ==
    /\ pc = "start"
    /\ today = D3
    /\ ret \in {Returned(t, None) : t \in CanonicalTables}
    /\ widgets \in [picked : {<< min_date(ret.df), max_date(ret.df) >>},
                    use_smoothing : BOOLEAN,
                    years : {<< >>}]
    /\ view = NoView
    /\ reparsed = NoReturn
    /\ Rest({"load", "dash", "round"})
    /\ response = NoResponse
    /\ scan = NoScan

\* the dashboard draws the table and builds the download
Export ==
    /\ pc = "start"
    /\ pc' = "exported"
    /\ view' = create_public_data_dashboard(ret.df, widgets.picked, widgets.use_smoothing)
    /\ UNCHANGED << today, response, ret, scan, now, public_cache, user_cache, gets,
                    hit, banner, widgets, user_ret, user_view, reparsed >>

\* the download, as written, is the fetched text
ReparseExport ==
    /\ pc = "exported"
    /\ pc' = "reparsed"
    /\ reparsed' = ParseAndFilter(view.csv, today)
    /\ UNCHANGED << today, response, ret, scan, now, public_cache, user_cache, gets,
                    hit, banner, widgets, view, user_ret, user_view >>

\* the download, its header relabelled, is the fetched text
ReparseRelabelled ==
    /\ pc = "exported"
    /\ pc' = "relabelled"
    /\ reparsed' = ParseAndFilter(Relabel(view.csv), today)
    /\ UNCHANGED << today, response, ret, scan, now, public_cache, user_cache, gets,
                    hit, banner, widgets, view, user_ret, user_view >>

NextRound == Export \/ ReparseExport \/ ReparseRelabelled

SpecRound == InitRound /\ [][NextRound]_vars

-----------------------------------------------------------------------------
(* The claims *)

IsFailure(resp) == resp.exc # "" \/ resp.status_code >= 400

\* the fields of a data line of a text labelled Date, CO2, as a record
ParsedRecord(line) ==
    [date |-> line[1].d,
     value |-> IF Len(line) >= 2 /\ line[2].k = "num" THEN Num(line[2].n) ELSE NaN]

DataLines == Tail(scan.csv_data)

Wanted(rec) == rec.value # Num(Sentinel) /\ ~DateLE(today, rec.date)

C2_FetchFailureFallback ==
    pc = "done" =>
        /\ IsFailure(response) =>
              /\ ret.kind = "return"
              /\ ret.error # None
              /\ Len(ret.df) > 0
              /\ ret.df[1] = [date |-> Date(1958, 3, 1), value |-> Num(315710)]
              /\ ret.df = example_df
        /\ (~IsFailure(response) /\ ret.kind = "return") => ret.error = None

\* the fetch answered 503 and the fallback came back
C2_Witness ==
    /\ pc = "done"
    /\ response = HttpError(503)
    /\ ret.kind = "return"
    /\ ret.error # None
    /\ ret.df[1].date = Date(1958, 3, 1)

\* the header line of the parsed text has no field labelled Date or CO2
NoDateOrCO2Column ==
    /\ Len(scan.csv_data) >= 1
    /\ \A i \in 1..Len(scan.csv_data[1]) :
          ~(scan.csv_data[1][i].k = "name" /\ scan.csv_data[1][i].s \in {"Date", "CO2"})

\* C3: when the fetch succeeds and the text has no column named Date or CO2,
\* load_public_data returns the fallback table with an error message and
\* raises nothing.
C3_SchemaFailureFallback ==
    (pc = "done" /\ ~IsFailure(response) /\ NoDateOrCO2Column) =>
        /\ ret.kind = "return"
        /\ ret.df = example_df
        /\ ret.error # None

WellFormed(line) == Len(line) = 2 /\ line[1].k = "date" /\ line[2].k = "num"

\* a row with the wrong number of fields or a non-numeric value
Malformed(line) == line[1].k = "date" /\ ~WellFormed(line)

\* the text is a Date, CO2 header followed by rows, some of them malformed
LabelledWithMalformedRows ==
    /\ Len(scan.csv_data) >= 2
    /\ scan.csv_data[1] \in {HeaderQuoted, HeaderPadded}
    /\ \A r \in 1..Len(DataLines) : WellFormed(DataLines[r]) \/ Malformed(DataLines[r])
    /\ \E r \in 1..Len(DataLines) : Malformed(DataLines[r])

\* C4: malformed rows are dropped, every well-formed row that passes the
\* filters is kept, and no error is raised.
C4_MalformedRowsSkipped ==
    (pc = "done" /\ ~IsFailure(response) /\ LabelledWithMalformedRows) =>
        /\ ret.kind = "return"
        /\ ret.df = SelectSeq(
                       [r \in 1..Len(SelectSeq(DataLines, WellFormed)) |->
                          ParsedRecord(SelectSeq(DataLines, WellFormed)[r])],
                       Wanted)

\* the text is quoted comment lines followed by positional rows, no header
Positional(text) ==
    /\ Len(text) >= 2
    /\ text[1] = Comment
    /\ text[Len(text)][1].k = "pos"
    /\ \A i \in 1..Len(text) : text[i] = Comment \/ text[i][1].k = "pos"
    /\ \A i \in 1..(Len(text) - 1) : text[i][1].k = "pos" => text[i + 1][1].k = "pos"

PositionalRecord(line) == [date |-> line[1].d, value |-> Num(line[1].n)]

\* C5: for positional text the result is one record per data row whose value
\* is not -99.99, dated the first day of the row's month.
C5_PositionalLayout ==
    (pc = "done" /\ ~IsFailure(response) /\ Positional(response.text)) =>
        /\ ret.kind = "return"
        /\ ret.df = SelectSeq(
                       [r \in 1..Len(SelectSeq(response.text, LAMBDA l : l[1].k = "pos")) |->
                          PositionalRecord(SelectSeq(response.text, LAMBDA l : l[1].k = "pos")[r])],
                       Wanted)

\* C6: data_start_line is the smallest index of a line that holds the token
\* "Date" (quoted), and 0 when no line holds it; the parser is given the
\* lines from that index to the end, in order.
C6_PreambleScan ==
    (pc = "done" /\ ~IsFailure(response)) =>
        LET lines == response.text
            i == scan.data_start_line
        IN  /\ i \in 0..Len(lines)
            /\ \A j \in 1..i : ~ContainsDateToken(lines[j])
            /\ \/ i < Len(lines) /\ ContainsDateToken(lines[i + 1])
               \/ i = 0 /\ \A j \in 1..Len(lines) : ~ContainsDateToken(lines[j])
            /\ Len(scan.csv_data) = Len(lines) - i
            /\ \A k \in 1..Len(scan.csv_data) : scan.csv_data[k] = lines[i + k]

\* the token is first on the second line or later, and again further down
C6_Witness ==
    /\ pc = "done" /\ ~IsFailure(response)
    /\ scan.data_start_line >= 1
    /\ \E j \in (scan.data_start_line + 2)..Len(response.text) :
          ContainsDateToken(response.text[j])

\* a value rounded to 2 decimals
Round2(v) == IF v = NaN THEN NaN ELSE Num((v[1] + 5) \div 10)

\* the rows of a frame, date and value alone, values to 2 decimals
Rounded(rows) ==
    [i \in 1..Len(rows) |-> [date |-> rows[i].date, value |-> Round2(rows[i].value)]]

InRange ==
    {i \in 1..Len(ret.df) :
        DateLE(widgets.picked[1], ret.df[i].date) /\ DateLE(ret.df[i].date, widgets.picked[2])}

\* C9: the smoother runs if and only if smoothing is on and the filtered
\* series has more than 11 rows; when it does not run the table has no
\* smoothed field, when it runs the field has one value per filtered row;
\* it never runs on a series of at most 11 rows.
C9_SmoothingGuard ==
    (pc = "done" /\ Len(widgets.picked) = 2 /\ DateLE(widgets.picked[1], widgets.picked[2])) =>
        /\ view.exc = ""
        /\ view.calls = 1 <=> (widgets.use_smoothing /\ Cardinality(InRange) > 11)
        /\ view.calls \in {0, 1}
        /\ Len(view.table.rows) = Cardinality(InRange)
        /\ view.calls = 0 =>
              /\ view.table.columns = << "date", "value" >>
              /\ \A i \in 1..Len(view.table.rows) :
                    DOMAIN view.table.rows[i] = {"date", "value"}
        /\ view.calls = 1 =>
              /\ view.table.columns = << "date", "value", "smoothed" >>
              /\ \A i \in 1..Len(view.table.rows) :
                    /\ DOMAIN view.table.rows[i] = {"date", "value", "smoothed"}
                    /\ Len(view.table.rows[i].smoothed) = 1

\* smoothing ran on 12 rows, and was skipped on 11
C9_Witness ==
    /\ pc = "done"
    /\ view.calls = 1
    /\ Len(view.table.rows) = 12

\* one hour, in seconds
ValidityWindow == 3600

\* C10: a run of main issues at most one GET, and none when an entry of
\* load_public_data younger than one hour is cached; a failed GET is not
\* retried, the run has the fallback pair, and the pair is cached, so that
\* runs within the next hour reuse it without a fetch.
C10_OneFetchPerRender ==
    [][ (now' = now) =>
          /\ gets' \in {0, 1}
          /\ (Len(public_cache) = 1 /\ now - public_cache[1].at < ValidityWindow) =>
                /\ gets' = 0
                /\ hit'
                /\ ret' = public_cache[1].value
                /\ public_cache' = public_cache
          /\ (gets' = 1 /\ IsFailure(response')) =>
                /\ ret'.kind = "return"
                /\ ret'.error # None
                /\ ret'.df = example_df
                /\ public_cache' = << [value |-> ret', at |-> now] >>
      ]_vars

\* a run, later than the failed fetch and within the hour, shows the cached
\* fallback without a request
C10_Witness ==
    /\ hit
    /\ gets = 0
    /\ ret.error # None
    /\ Len(public_cache) = 1
    /\ now > public_cache[1].at
    /\ ret = public_cache[1].value

====
